---- MODULE Spec2Model ----
(***************************************************************************)
(* Formation engine (ofm/core/football/formation.py) and match clock       *)
(* (ofm/core/simulation/simulation.py) of Openfoot Manager.                *)
(*                                                                         *)
(* Python objects are modelled with their identity: PlayerSimulation       *)
(* objects live in the heap `sims`, list objects in the heap `lists`; the  *)
(* fields gk/df/mf/fw/bench of the Formation and of every FormationMemento *)
(* hold references (indices) into these heaps, so that aliasing between a  *)
(* memento and the live formation is visible.                              *)
(***************************************************************************)
EXTENDS Integers, Sequences, FiniteSets, TLC

VARIABLES
    \* ---- Formation -----------------------------------------------------
    formation_string,   \* Formation.formation_string (sequence of characters)
    gk,                 \* Formation.gk: reference into sims, None = 0
    df, mf, fw, bench,  \* Formation.df/mf/fw/bench: references into lists
    history,            \* Formation._history: sequence of mementos
    sims,               \* heap of PlayerSimulation objects
    lists,              \* heap of list objects (sequences of sims references)
    roster,             \* the caller's list of PlayerTeam passed to get_best_players
    status,             \* "new" | "ok" | "failed": outcome of the constructor
    err,                \* exception raised by the last call, "none" if it returned
    last,               \* the last call: name, arguments
    pushed,             \* per memento: the slot values at the time it was pushed
    calls,              \* number of calls made on the constructed Formation
    \* ---- LiveGame ------------------------------------------------------
    minutes,            \* LiveGame.minutes, in tenths of a minute
    is_half_time,
    is_game_over,
    possible_extra_time,
    possible_penalties,
    home_score,         \* engine.home_team.score
    away_score,         \* engine.away_team.score
    clock_pc,           \* "idle" | "run": position inside LiveGame.run
    ticks,              \* engine.run calls made by the current/last run() call,
                        \* counted modulo MaxTicks + 1
    last_tick,          \* argument of the last engine.run call, -1 if none
    start,              \* minutes when the current/last run() call began
    resets              \* number of reset_after_half_time calls made

fvars == <<formation_string, gk, df, mf, fw, bench, history, sims, lists,
           roster, status, err, last, pushed, calls>>
cvars == <<minutes, is_half_time, is_game_over, possible_extra_time,
           possible_penalties, home_score, away_score, clock_pc, ticks,
           last_tick, start, resets>>
vars == <<fvars, cvars>>

----------------------------------------------------------------------------
(* Bounds of the model *)
MaxScore == 1       \* scores are drawn from 0..MaxScore
MaxResets == 4      \* reset_after_half_time calls per match
MaxTicks == 460     \* the tick counter counts modulo MaxTicks + 1
MaxCalls == 3       \* calls made on a Formation after its construction
MaxAdds == 5        \* add_player calls made when a Formation is filled by hand

----------------------------------------------------------------------------
(* Match clock: LiveGame, SimulationEngine *)

\* getcontext().prec = 5
DecimalPrec == 5

RECURSIVE Pow10(_)
Pow10(n) == IF n = 0 THEN 1 ELSE 10 * Pow10(n - 1)

\* Decimal addition self.minutes += Decimal(0.1) under a context of DecimalPrec
\* significant digits, on tenths of a minute.  Decimal(0.1) is the binary
\* double 0.1000000000000000055..., so the exact sum lies just above t + 1
\* tenths; it is rounded (half even) to DecimalPrec significant digits.  The
\* sum is exact while it has at most DecimalPrec digits; above that the
\* quantum is 10 tenths and the excess over a half is never a tie.
DecimalAddTenth(t) ==
    LET limit == Pow10(DecimalPrec)        \* tenths: 10^5 = 10000.0 minutes
        s == t + 1
    IN  IF s <= limit THEN s
        ELSE IF s % 10 >= 5 THEN (s \div 10) * 10 + 10 ELSE (s \div 10) * 10

is_game_a_draw == home_score = away_score

\* game_is_not_in_break deciding full time on possible_extra_time alone
game_is_not_in_break_NoDrawAt90 ==
    IF minutes = 1200
    THEN IF possible_penalties /\ is_game_a_draw
         THEN [ret |-> FALSE, half |-> TRUE, over |-> is_game_over]
         ELSE [ret |-> FALSE, half |-> is_half_time, over |-> TRUE]
    ELSE IF minutes \in {450, 1050}
    THEN [ret |-> FALSE, half |-> TRUE, over |-> is_game_over]
    ELSE IF minutes = 900
    THEN IF possible_extra_time
         THEN [ret |-> FALSE, half |-> TRUE, over |-> is_game_over]
         ELSE [ret |-> FALSE, half |-> is_half_time, over |-> TRUE]
    ELSE [ret |-> TRUE, half |-> is_half_time, over |-> is_game_over]

\* game_is_not_in_break without the half-time boundary at 45.0
game_is_not_in_break_No45 ==
    IF minutes = 1200
    THEN IF possible_penalties /\ is_game_a_draw
         THEN [ret |-> FALSE, half |-> TRUE, over |-> is_game_over]
         ELSE [ret |-> FALSE, half |-> is_half_time, over |-> TRUE]
    ELSE IF minutes \in {1050}
    THEN [ret |-> FALSE, half |-> TRUE, over |-> is_game_over]
    ELSE IF minutes = 900
    THEN IF possible_extra_time /\ is_game_a_draw
         THEN [ret |-> FALSE, half |-> TRUE, over |-> is_game_over]
         ELSE [ret |-> FALSE, half |-> is_half_time, over |-> TRUE]
    ELSE [ret |-> TRUE, half |-> is_half_time, over |-> is_game_over]

\* game_is_not_in_break testing possible_extra_time at 120.0
game_is_not_in_break_ExtraAt120 ==
    IF minutes = 1200
    THEN IF possible_extra_time /\ is_game_a_draw
         THEN [ret |-> FALSE, half |-> TRUE, over |-> is_game_over]
         ELSE [ret |-> FALSE, half |-> is_half_time, over |-> TRUE]
    ELSE IF minutes \in {450, 1050}
    THEN [ret |-> FALSE, half |-> TRUE, over |-> is_game_over]
    ELSE IF minutes = 900
    THEN IF possible_extra_time /\ is_game_a_draw
         THEN [ret |-> FALSE, half |-> TRUE, over |-> is_game_over]
         ELSE [ret |-> FALSE, half |-> is_half_time, over |-> TRUE]
    ELSE [ret |-> TRUE, half |-> is_half_time, over |-> is_game_over]

\* game_is_not_in_break setting is_game_over at 120.0 without the else
game_is_not_in_break_BothAt120 ==
    IF minutes = 1200
    THEN IF possible_penalties /\ is_game_a_draw
         THEN [ret |-> FALSE, half |-> TRUE, over |-> TRUE]
         ELSE [ret |-> FALSE, half |-> is_half_time, over |-> TRUE]
    ELSE IF minutes \in {450, 1050}
    THEN [ret |-> FALSE, half |-> TRUE, over |-> is_game_over]
    ELSE IF minutes = 900
    THEN IF possible_extra_time /\ is_game_a_draw
         THEN [ret |-> FALSE, half |-> TRUE, over |-> is_game_over]
         ELSE [ret |-> FALSE, half |-> is_half_time, over |-> TRUE]
    ELSE [ret |-> TRUE, half |-> is_half_time, over |-> is_game_over]

\* LiveGame.game_is_not_in_break: the value returned and the flags it sets.
game_is_not_in_break ==
    IF minutes = 1200
    THEN IF possible_penalties /\ is_game_a_draw
         THEN [ret |-> FALSE, half |-> TRUE, over |-> is_game_over]
         ELSE [ret |-> FALSE, half |-> is_half_time, over |-> TRUE]
    ELSE IF minutes \in {450, 1050}
    THEN [ret |-> FALSE, half |-> TRUE, over |-> is_game_over]
    ELSE IF minutes = 900
    THEN IF possible_extra_time /\ is_game_a_draw
         THEN [ret |-> FALSE, half |-> TRUE, over |-> is_game_over]
         ELSE [ret |-> FALSE, half |-> is_half_time, over |-> TRUE]
    ELSE [ret |-> TRUE, half |-> is_half_time, over |-> is_game_over]

\* LiveGame.__init__
ClockFresh ==
    /\ minutes = 0
    /\ is_half_time = FALSE
    /\ is_game_over = FALSE
    /\ clock_pc = "idle"
    /\ ticks = 0
    /\ last_tick = -1
    /\ start = 0
    /\ resets = 0

\* reset_after_half_time clearing both flags
reset_after_half_time_ClearsOver ==
    /\ UNCHANGED fvars
    /\ clock_pc = "idle"
    /\ resets < MaxResets
    /\ is_half_time' = FALSE
    /\ is_game_over' = FALSE
    /\ minutes' = DecimalAddTenth(minutes)
    /\ resets' = resets + 1
    /\ UNCHANGED <<possible_extra_time, possible_penalties,
                   home_score, away_score, clock_pc, ticks, last_tick, start>>

\* LiveGame.reset_after_half_time
reset_after_half_time ==
    /\ UNCHANGED fvars
    /\ clock_pc = "idle"
    /\ resets < MaxResets
    /\ is_half_time' = FALSE
    /\ minutes' = DecimalAddTenth(minutes)
    /\ resets' = resets + 1
    /\ UNCHANGED <<is_game_over, possible_extra_time, possible_penalties,
                   home_score, away_score, clock_pc, ticks, last_tick, start>>

\* LiveGame.run is entered
RunCall ==
    /\ UNCHANGED fvars
    /\ clock_pc = "idle"
    /\ clock_pc' = "run"
    /\ ticks' = 0
    /\ start' = minutes
    /\ UNCHANGED <<minutes, is_half_time, is_game_over, possible_extra_time,
                   possible_penalties, home_score, away_score, last_tick, resets>>

\* One iteration of the while loop of LiveGame.run
RunIter ==
    /\ UNCHANGED fvars
    /\ clock_pc = "run"
    /\ ~is_game_over /\ ~is_half_time
    /\ LET r == game_is_not_in_break
       IN  /\ is_half_time' = r.half
           /\ is_game_over' = r.over
           /\ IF r.ret
              THEN /\ last_tick' = minutes            \* self.engine.run(self.minutes)
                   /\ ticks' = (ticks + 1) % (MaxTicks + 1)
                   /\ minutes' = DecimalAddTenth(minutes)
              ELSE UNCHANGED <<last_tick, ticks, minutes>>
    /\ UNCHANGED <<possible_extra_time, possible_penalties, home_score,
                   away_score, clock_pc, start, resets>>

\* The loop condition of LiveGame.run fails: run returns
RunReturn ==
    /\ UNCHANGED fvars
    /\ clock_pc = "run"
    /\ is_game_over \/ is_half_time
    /\ clock_pc' = "idle"
    /\ UNCHANGED <<minutes, is_half_time, is_game_over, possible_extra_time,
                   possible_penalties, home_score, away_score, ticks, last_tick,
                   start, resets>>

----------------------------------------------------------------------------
(* Formation: values *)

None == 0

\* Positions (player.py), with the enum values that order the bench
Positions == {"GK", "DF", "MF", "FW"}

PosValue(p) ==
    CASE p = "GK" -> 1 [] p = "DF" -> 2 [] p = "MF" -> 3 [] p = "FW" -> 4

\* A formation code "d-m-f" as the sequence of its characters
Str3(d, m, f) == <<d, "-", m, "-", f>>

\* FORMATION_STRINGS with "4-4-3" listed as a ninth shape
FORMATION_STRINGS_With443 ==
    <<Str3("3","4","3"), Str3("3","5","2"), Str3("3","6","1"), Str3("4","4","2"),
      Str3("4","3","3"), Str3("4","5","1"), Str3("5","4","1"), Str3("5","3","2"),
      Str3("4","4","3")>>

FORMATION_STRINGS ==
    <<Str3("3","4","3"), Str3("3","5","2"), Str3("3","6","1"), Str3("4","4","2"),
      Str3("4","3","3"), Str3("4","5","1"), Str3("5","4","1"), Str3("5","3","2")>>

Contains(seq, x) == \E i \in 1..Len(seq) : seq[i] = x

\* list.index(x): the first index holding x (the caller checks Contains)
Index(seq, x) == CHOOSE i \in 1..Len(seq) : seq[i] = x /\ \A j \in 1..(i-1) : seq[j] # x

\* list.remove(x): the list without the first occurrence of x
Remove(seq, x) ==
    LET i == Index(seq, x)
    IN  SubSeq(seq, 1, i - 1) \o SubSeq(seq, i + 1, Len(seq))

\* Formation.validate_formation, on a formation string
validate_formation(fs) == Contains(FORMATION_STRINGS, fs)

\* str.split("-")
RECURSIVE Split(_)
Split(str) ==
    IF ~Contains(str, "-") THEN <<str>>
    ELSE LET i == Index(str, "-")
         IN  <<SubSeq(str, 1, i - 1)>> \o Split(SubSeq(str, i + 1, Len(str)))

Digits == {"0", "1", "2", "3", "4", "5", "6", "7", "8", "9"}

DigitValue(c) ==
    CASE c = "0" -> 0 [] c = "1" -> 1 [] c = "2" -> 2 [] c = "3" -> 3 [] c = "4" -> 4
      [] c = "5" -> 5 [] c = "6" -> 6 [] c = "7" -> 7 [] c = "8" -> 8 [] c = "9" -> 9

\* int(str) accepts a non-empty string of digits
IsInt(str) == Len(str) > 0 /\ \A i \in 1..Len(str) : str[i] \in Digits

RECURSIVE ToInt(_)
ToInt(str) ==
    IF Len(str) = 0 THEN 0
    ELSE 10 * ToInt(SubSeq(str, 1, Len(str) - 1)) + DigitValue(str[Len(str)])

\* Formation.get_num_players; ok = FALSE where the unpacking or int() raises
\* ValueError
get_num_players(fs) ==
    LET parts == Split(fs)
    IN  IF Len(parts) = 3 /\ \A i \in 1..3 : IsInt(parts[i])
        THEN [ok |-> TRUE, df |-> ToInt(parts[1]), mf |-> ToInt(parts[2]),
              fw |-> ToInt(parts[3])]
        ELSE [ok |-> FALSE, df |-> 0, mf |-> 0, fw |-> 0]

----------------------------------------------------------------------------
(* Formation: the object *)

\* The Formation object and the heaps it points into, as one value
Self ==
    [formation_string |-> formation_string, gk |-> gk, df |-> df, mf |-> mf,
     fw |-> fw, bench |-> bench, history |-> history, sims |-> sims,
     lists |-> lists, roster |-> roster, err |-> "none"]

Raise(s, e) == [s EXCEPT !.err = e]

\* Formation._save_history: copy(self.gk) is a new PlayerSimulation object
\* with the same fields (None stays None), copy(list) a new list object that
\* holds the same PlayerSimulation objects.
save_history(s) ==
    LET s1 == IF s.gk = None THEN s ELSE [s EXCEPT !.sims = Append(@, s.sims[s.gk])]
        gkc == IF s.gk = None THEN None ELSE Len(s1.sims)
        n == Len(s.lists)
    IN  [s1 EXCEPT
           !.lists = @ \o <<s.lists[s.df], s.lists[s.mf], s.lists[s.fw],
                            s.lists[s.bench]>>,
           !.history = Append(@, [gk |-> gkc, df |-> n + 1, mf |-> n + 2,
                                  fw |-> n + 3, bench |-> n + 4])]

\* The dataclass constructor and Formation.__post_init__
post_init(s, code) ==
    LET s0 == [s EXCEPT !.formation_string = code, !.gk = None,
                        !.lists = <<<<>>, <<>>, <<>>, <<>>>>,
                        !.df = 1, !.mf = 2, !.fw = 3, !.bench = 4,
                        !.history = <<>>]
    IN  IF ~validate_formation(s0.formation_string)
        THEN Raise(s0, "FormationError")
        ELSE save_history(s0)

\* The value of an Optional[PlayerSimulation] reference: empty for None
SimValue(s, x) == IF x = None THEN <<>> ELSE <<s.sims[x]>>

\* The values held by five slot references m (the live formation or a memento)
SlotValues(s, m) ==
    [gk |-> SimValue(s, m.gk),
     df |-> [i \in 1..Len(s.lists[m.df]) |-> s.sims[s.lists[m.df][i]]],
     mf |-> [i \in 1..Len(s.lists[m.mf]) |-> s.sims[s.lists[m.mf][i]]],
     fw |-> [i \in 1..Len(s.lists[m.fw]) |-> s.sims[s.lists[m.fw][i]]],
     bench |-> [i \in 1..Len(s.lists[m.bench]) |-> s.sims[s.lists[m.bench][i]]]]

Live(s) == [gk |-> s.gk, df |-> s.df, mf |-> s.mf, fw |-> s.fw, bench |-> s.bench]

\* The references to list objects held by the formation and its mementos
RECURSIVE ListRefs(_, _)
ListRefs(s, i) ==
    IF i = 0 THEN <<s.df, s.mf, s.fw, s.bench>>
    ELSE ListRefs(s, i - 1)
         \o <<s.history[i].df, s.history[i].mf, s.history[i].fw, s.history[i].bench>>

\* Garbage collection: list objects nothing refers to are dropped and the
\* others renamed in the order of their first reference; which references
\* are to the same object is unchanged.
Collect(s) ==
    LET refs == ListRefs(s, Len(s.history))
        used == {refs[j] : j \in 1..Len(refs)}
        name == [l \in used |->
                   Cardinality({refs[j] : j \in 1..Index(refs, l)})]
        old(k) == CHOOSE l \in used : name[l] = k
    IN  [s EXCEPT
           !.lists = [k \in 1..Cardinality(used) |-> s.lists[old(k)]],
           !.df = name[s.df], !.mf = name[s.mf], !.fw = name[s.fw],
           !.bench = name[s.bench],
           !.history = [i \in 1..Len(s.history) |->
                          [gk |-> s.history[i].gk,
                           df |-> name[s.history[i].df],
                           mf |-> name[s.history[i].mf],
                           fw |-> name[s.history[i].fw],
                           bench |-> name[s.history[i].bench]]]]

\* The arguments of a call: two players or a slot index and a player (0 where
\* the call has none), whether the player is a PlayerTeam, and a formation code
NoArgs == [a |-> 0, b |-> 0, is_team |-> FALSE, code |-> <<>>]

\* The call `name` with arguments `args` turned the object into s; `atpush` is
\* the object as it was when the call ran _save_history (if it did)
Becomes(result, name, args, atpush) ==
  \E s \in {Collect(result)} :
    /\ formation_string' = s.formation_string
    /\ gk' = s.gk
    /\ df' = s.df /\ mf' = s.mf /\ fw' = s.fw
    /\ bench' = s.bench
    /\ history' = s.history
    /\ sims' = s.sims
    /\ lists' = s.lists
    /\ roster' = s.roster
    /\ err' = s.err
    /\ last' = [name |-> name] @@ args
    /\ pushed' = IF Len(s.history) > Len(history)
                 THEN Append(pushed, SlotValues(atpush, Live(atpush)))
                 ELSE pushed

\* Formation codes the callers construct a Formation with: a shape the roster
\* can fill, a string that is no shape and a string that does not parse
CodeInputs == {Str3("4","4","2"), Str3("4","4","3"), <<"4","4","2">>}

\* Formation codes the callers pass to change_formation: a shape the roster
\* has too few midfielders for, and a string that is no shape
ChangeInputs == {Str3("3","5","2"), Str3("4","4","3")}

\* Formation(code), for a code among `codes`
Formation(codes) ==
    /\ UNCHANGED cvars
    /\ status = "new"
    /\ \E code \in codes :
         \E s \in {post_init(Self, code)} :
             /\ Becomes(s, "Formation", [NoArgs EXCEPT !.code = code], s)
             /\ status' = IF s.err = "none" THEN "ok" ELSE "failed"
             /\ UNCHANGED calls

----------------------------------------------------------------------------
(* Formation: players *)

\* The team's PlayerTeam objects, by identity 1..13: the intrinsic best
\* position and the overall rating for it (player.py: get_best_position,
\* attributes.get_overall)
PlayerTable ==
    <<[best |-> "FW", rating |-> 60], [best |-> "GK", rating |-> 60],
      [best |-> "DF", rating |-> 75], [best |-> "MF", rating |-> 80],
      [best |-> "DF", rating |-> 75], [best |-> "GK", rating |-> 85],
      [best |-> "MF", rating |-> 65], [best |-> "DF", rating |-> 50],
      [best |-> "FW", rating |-> 90], [best |-> "MF", rating |-> 70],
      [best |-> "DF", rating |-> 65], [best |-> "MF", rating |-> 72],
      [best |-> "FW", rating |-> 70]>>

get_best_position(p) == PlayerTable[p].best

\* A player is rated lower away from its best position
get_overall(p, position) ==
    IF position = PlayerTable[p].best THEN PlayerTable[p].rating
    ELSE PlayerTable[p].rating - 20

\* The roster list the caller passes to get_best_players
TeamRoster == [p \in 1..Len(PlayerTable) |-> p]

\* PlayerSimulation(player, position)
PlayerSimulation(p, position) ==
    [player |-> p, current_position |-> position, subbed |-> FALSE]

\* list.sort(key=...): a stable sort, ascending in key[x]; elements with equal
\* keys keep their order (reverse=True sorts by the negated key, which keeps
\* the order of equal elements as Python does)
RECURSIVE StableSort(_, _)
StableSort(seq, key) ==
    IF Len(seq) <= 1 THEN seq
    ELSE LET rest == StableSort(Tail(seq), key)
             x == Head(seq)
             k == Cardinality({i \in 1..Len(rest) : key[rest[i]] < key[x]})
         IN  SubSeq(rest, 1, k) \o <<x>> \o SubSeq(rest, k + 1, Len(rest))

----------------------------------------------------------------------------
(* Formation: operations *)

\* Formation.players
players(s) ==
    IF s.gk = None THEN <<>>
    ELSE <<s.gk>> \o s.lists[s.df] \o s.lists[s.mf] \o s.lists[s.fw]

\* Formation.all_players
all_players(s) == players(s) \o s.lists[s.bench]

\* get_best_players_per_position sorting without reverse=True
get_best_players_per_position_Ascending(plist, position) ==
    LET InPosition(p) == get_best_position(p) = position
        key == [p \in 1..Len(PlayerTable) |-> get_overall(p, position)]
    IN  StableSort(SelectSeq(plist, InPosition), key)

\* Formation.get_best_players_per_position; <<>> stands for the FormationError
get_best_players_per_position(plist, position) ==
    LET InPosition(p) == get_best_position(p) = position
        key == [p \in 1..Len(PlayerTable) |-> 0 - get_overall(p, position)]
    IN  StableSort(SelectSeq(plist, InPosition), key)

\* add_player routing by index range alone, without the occupancy tests
add_player_NoOccupancy(s, position, is_team, player) ==
    LET s1 == IF is_team
              THEN [s EXCEPT !.sims = Append(@, [player |-> player,
                                                 current_position |-> "GK",
                                                 subbed |-> FALSE])]
              ELSE s
        player_sim == IF is_team THEN Len(s1.sims) ELSE player
        n == get_num_players(s1.formation_string)
    IN  IF ~n.ok THEN Raise(s1, "ValueError")
        ELSE IF position = 0 THEN [s1 EXCEPT !.gk = player_sim]
        ELSE IF 0 < position /\ position <= n.df
        THEN [s1 EXCEPT !.sims[player_sim].current_position = "DF",
                        !.lists[s1.df] = Append(@, player_sim)]
        ELSE IF n.df < position /\ position <= n.df + n.mf
        THEN [s1 EXCEPT !.sims[player_sim].current_position = "MF",
                        !.lists[s1.mf] = Append(@, player_sim)]
        ELSE IF n.df + n.mf < position /\ position <= n.df + n.mf + n.fw
        THEN [s1 EXCEPT !.sims[player_sim].current_position = "FW",
                        !.lists[s1.fw] = Append(@, player_sim)]
        ELSE [s1 EXCEPT !.sims[player_sim].current_position =
                            get_best_position(s1.sims[player_sim].player),
                        !.lists[s1.bench] = Append(@, player_sim)]

\* Formation.add_player; is_team says that player is a PlayerTeam (wrapped in
\* a new PlayerSimulation at Positions.GK), else it is a PlayerSimulation
add_player(s, position, is_team, player) ==
    LET s1 == IF is_team
              THEN [s EXCEPT !.sims = Append(@, PlayerSimulation(player, "GK"))]
              ELSE s
        player_sim == IF is_team THEN Len(s1.sims) ELSE player
        n == get_num_players(s1.formation_string)
    IN  IF ~n.ok THEN Raise(s1, "ValueError")
        ELSE IF position = 0 THEN [s1 EXCEPT !.gk = player_sim]
        ELSE IF 0 < position /\ position <= n.df /\ Len(s1.lists[s1.df]) < n.df
        THEN [s1 EXCEPT !.sims[player_sim].current_position = "DF",
                        !.lists[s1.df] = Append(@, player_sim)]
        ELSE IF n.df < position /\ position <= n.df + n.mf
                /\ Len(s1.lists[s1.mf]) < n.mf
        THEN [s1 EXCEPT !.sims[player_sim].current_position = "MF",
                        !.lists[s1.mf] = Append(@, player_sim)]
        ELSE IF n.df + n.mf < position /\ position <= n.df + n.mf + n.fw
                /\ Len(s1.lists[s1.fw]) < n.fw
        THEN [s1 EXCEPT !.sims[player_sim].current_position = "FW",
                        !.lists[s1.fw] = Append(@, player_sim)]
        ELSE [s1 EXCEPT !.sims[player_sim].current_position =
                            get_best_position(s1.sims[player_sim].player),
                        !.lists[s1.bench] = Append(@, player_sim)]

\* The for loop of Formation.get_best_players, from slot index `position`
RECURSIVE best_players_loop(_, _, _)
best_players_loop(s, n, position) ==
    IF position = 11 THEN s
    ELSE LET pos ==
               IF position = 0 THEN "GK"
               ELSE IF 0 < position /\ position <= n.df /\ Len(s.lists[s.df]) < n.df
               THEN "DF"
               ELSE IF n.df < position /\ position <= n.df + n.mf
                       /\ Len(s.lists[s.mf]) < n.mf
               THEN "MF"
               ELSE IF position <= n.df + n.mf + n.fw /\ Len(s.lists[s.fw]) < n.fw
               THEN "FW"
               ELSE "none"
             best == IF pos = "none" THEN <<>>
                     ELSE get_best_players_per_position(s.roster, pos)
         IN  IF pos = "none" \/ best = <<>> THEN Raise(s, "FormationError")
             ELSE LET s1 == add_player(s, position, TRUE, best[1])
                  IN  IF s1.err # "none" THEN s1
                      ELSE best_players_loop(
                               [s1 EXCEPT !.roster = Remove(@, best[1])], n,
                               position + 1)

\* get_best_players leaving the bench in roster order
get_best_players_Unsorted(s) ==
    LET n == get_num_players(s.formation_string)
    IN  IF ~n.ok THEN Raise(s, "ValueError")
        ELSE LET s1 == best_players_loop(s, n, 0)
             IN  IF s1.err # "none" THEN s1
                 ELSE LET k == Len(s1.sims)
                          made == [i \in 1..Len(s1.roster) |->
                                     [player |-> s1.roster[i],
                                      current_position |->
                                          get_best_position(s1.roster[i]),
                                      subbed |-> FALSE]]
                          s2 == [s1 EXCEPT !.sims = @ \o made]
                      IN  [s2 EXCEPT
                             !.lists = Append(@, [i \in 1..Len(made) |-> k + i]),
                             !.bench = Len(s2.lists) + 1]

\* Formation.get_best_players; the roster is the caller's list, which the loop
\* empties of the players it places
get_best_players(s) ==
    LET n == get_num_players(s.formation_string)
    IN  IF ~n.ok THEN Raise(s, "ValueError")
        ELSE LET s1 == best_players_loop(s, n, 0)
             IN  IF s1.err # "none" THEN s1
                 ELSE LET k == Len(s1.sims)
                          made == [i \in 1..Len(s1.roster) |->
                                     PlayerSimulation(s1.roster[i],
                                         get_best_position(s1.roster[i]))]
                          s2 == [s1 EXCEPT !.sims = @ \o made]
                          key == [x \in 1..Len(s2.sims) |->
                                    PosValue(s2.sims[x].current_position)]
                          sorted == StableSort([i \in 1..Len(made) |-> k + i], key)
                      IN  [s2 EXCEPT !.lists = Append(@, sorted),
                                     !.bench = Len(s2.lists) + 1]

\* The for loop of Formation.change_formation over enumerate(players)
RECURSIVE replay(_, _, _)
replay(s, plist, pos) ==
    IF pos >= Len(plist) THEN s
    ELSE LET s1 == add_player(s, pos, FALSE, plist[pos + 1])
         IN  IF s1.err # "none" THEN s1 ELSE replay(s1, plist, pos + 1)

\* change_formation replaying the players without emptying the slots first
change_formation_NoClear(s, code) ==
    LET s0 == [s EXCEPT !.formation_string = code]
    IN  IF ~validate_formation(s0.formation_string) THEN Raise(s0, "FormationError")
        ELSE replay(s0, players(s0), 0)

\* Formation.change_formation
change_formation(s, code) ==
    LET s0 == [s EXCEPT !.formation_string = code]
    IN  IF ~validate_formation(s0.formation_string) THEN Raise(s0, "FormationError")
        ELSE LET plist == players(s0)
                 k == Len(s0.lists)
                 s1 == [s0 EXCEPT !.gk = None,
                                  !.lists = @ \o <<<<>>, <<>>, <<>>>>,
                                  !.df = k + 1, !.mf = k + 2, !.fw = k + 3]
             IN  replay(s1, plist, 0)

\* The bucket list a position names, None for an unknown position
Bucket(s, position) ==
    CASE position = "DF" -> s.df
      [] position = "MF" -> s.mf
      [] position = "FW" -> s.fw
      [] OTHER -> None

\* self.<bucket>[self.<bucket>.index(old)] = new, or self.gk = new, chosen by
\* position; ValueError where index() does not find `old`
put_at(s, position, old, new) ==
    IF position = "GK" THEN [s EXCEPT !.gk = new]
    ELSE IF Bucket(s, position) = None THEN Raise(s, "FormationError")
    ELSE LET b == Bucket(s, position)
         IN  IF ~Contains(s.lists[b], old) THEN Raise(s, "ValueError")
             ELSE [s EXCEPT !.lists[b][Index(s.lists[b], old)] = new]

\* substitute_player testing the membership of player_in alone
substitute_player_ChecksInOnly(s, player_out, player_in) ==
    IF ~Contains(all_players(s), player_in)
    THEN Raise(s, "FormationError")
    ELSE LET s1 == save_history(s)
             current_position == s1.sims[player_out].current_position
             s2 == put_at(s1, current_position, player_out, player_in)
         IN  IF s2.err # "none" THEN s2
             ELSE LET s3 == [s2 EXCEPT !.sims[player_out].subbed = TRUE]
                  IN  IF ~Contains(s3.lists[s3.bench], player_in)
                      THEN Raise(s3, "ValueError")
                      ELSE [s3 EXCEPT
                              !.lists[s3.bench] = Append(Remove(@, player_in), player_out),
                              !.sims[player_in].current_position = current_position]

\* Formation.substitute_player
substitute_player(s, player_out, player_in) ==
    IF ~Contains(all_players(s), player_in) \/ ~Contains(all_players(s), player_out)
    THEN Raise(s, "FormationError")
    ELSE LET s1 == save_history(s)
             current_position == s1.sims[player_out].current_position
             s2 == put_at(s1, current_position, player_out, player_in)
         IN  IF s2.err # "none" THEN s2
             ELSE LET s3 == [s2 EXCEPT !.sims[player_out].subbed = TRUE]
                  IN  IF ~Contains(s3.lists[s3.bench], player_in)
                      THEN Raise(s3, "ValueError")
                      ELSE [s3 EXCEPT
                              !.lists[s3.bench] = Append(Remove(@, player_in), player_out),
                              !.sims[player_in].current_position = current_position]

\* Formation.move_player
move_player(s, player, player_out) ==
    IF ~Contains(all_players(s), player) THEN Raise(s, "FormationError")
    ELSE LET s1 == save_history(s)
             pos == s1.sims[player].current_position
             new_pos == s1.sims[player_out].current_position
             s2 == [s1 EXCEPT !.sims[player].current_position = new_pos]
             s3 == [s2 EXCEPT !.sims[player_out].current_position = pos]
             s4 == put_at(s3, new_pos, player_out, player)
         IN  IF s4.err # "none" THEN s4
             ELSE put_at(s4, pos, player, player_out)

\* Formation.restore
restore(s, memento) ==
    [s EXCEPT !.gk = memento.gk, !.df = memento.df, !.mf = memento.mf,
              !.fw = memento.fw, !.bench = memento.bench]

----------------------------------------------------------------------------
(* Formation: the calls the callers make *)

\* Slot indices and players the callers pass to add_player
AddPositions == {0, 1, 11}
AddPlayerTeams == {3, 9}

\* The PlayerSimulation objects the callers pass: the keeper, the first
\* defender, the first and the last player on the bench, and the keeper held
\* by the latest memento (_save_history made it with copy(self.gk): an object
\* of its own, in none of the slots until a caller puts it there)
SimInputs ==
    LET First(l) == IF Len(l) = 0 THEN {} ELSE {l[1]}
        Final(l) == IF Len(l) = 0 THEN {} ELSE {l[Len(l)]}
    IN  ({gk} \cup First(lists[df]) \cup First(lists[bench])
         \cup Final(lists[bench]) \cup {history[Len(history)].gk}) \ {None}

AddPlayer ==
    /\ UNCHANGED cvars
    /\ status = "ok"
    /\ calls < MaxCalls
    /\ calls' = calls + 1
    /\ \E position \in AddPositions :
         \/ \E p \in AddPlayerTeams :
              \E s \in {add_player(Self, position, TRUE, p)} :
                  Becomes(s, "add_player",
                          [NoArgs EXCEPT !.a = position, !.b = p, !.is_team = TRUE], Self)
         \/ \E x \in SimInputs :
              \E s \in {add_player(Self, position, FALSE, x)} :
                  Becomes(s, "add_player", [NoArgs EXCEPT !.a = position, !.b = x], Self)
    /\ UNCHANGED status

\* The lineup is assigned once, to a formation that holds no player yet
AssignBestLineup ==
    /\ UNCHANGED cvars
    /\ status = "ok"
    /\ calls < MaxCalls
    /\ calls' = calls + 1
    /\ sims = <<>>
    /\ \E s \in {get_best_players(Self)} :
           Becomes(s, "get_best_players", NoArgs, Self)
    /\ UNCHANGED status

ChangeFormation ==
    /\ UNCHANGED cvars
    /\ status = "ok"
    /\ calls < MaxCalls
    /\ calls' = calls + 1
    /\ \E code \in ChangeInputs :
         \E s \in {change_formation(Self, code)} :
             Becomes(s, "change_formation", [NoArgs EXCEPT !.code = code], Self)
    /\ UNCHANGED status

SubstitutePlayer ==
    /\ UNCHANGED cvars
    /\ status = "ok"
    /\ calls < MaxCalls
    /\ calls' = calls + 1
    /\ \E player_out \in SimInputs, player_in \in SimInputs :
         \E s \in {substitute_player(Self, player_out, player_in)} :
             Becomes(s, "substitute_player",
                    [NoArgs EXCEPT !.a = player_out, !.b = player_in], Self)
    /\ UNCHANGED status

MovePlayer ==
    /\ UNCHANGED cvars
    /\ status = "ok"
    /\ calls < MaxCalls
    /\ calls' = calls + 1
    /\ \E player \in SimInputs, player_out \in SimInputs :
         \E s \in {move_player(Self, player, player_out)} :
             Becomes(s, "move_player", [NoArgs EXCEPT !.a = player, !.b = player_out], Self)
    /\ UNCHANGED status

Restore ==
    /\ UNCHANGED cvars
    /\ status = "ok"
    /\ calls < MaxCalls
    /\ calls' = calls + 1
    /\ \E i \in 1..Len(history) :
         Becomes(restore(Self, history[i]), "restore", [NoArgs EXCEPT !.a = i], Self)
    /\ UNCHANGED status

\* A Formation filled by hand, as the tests do: a forward of the roster, or
\* the first player on the bench, is added at a defender, a midfield or a
\* forward index or at an index beyond the shape
FillShapes == {Str3("3","5","2"), Str3("5","3","2")}
FillPositions == {1, 6, 9, 11}
FillPlayerTeams == {9}
FillSims == IF Len(lists[bench]) = 0 THEN {} ELSE {lists[bench][1]}

ConstructShape == Formation(FillShapes)

FillSlot ==
    /\ UNCHANGED cvars
    /\ status = "ok"
    /\ calls < MaxAdds
    /\ calls' = calls + 1
    /\ \E position \in FillPositions :
         \/ \E p \in FillPlayerTeams :
              \E s \in {add_player(Self, position, TRUE, p)} :
                  Becomes(s, "add_player",
                          [NoArgs EXCEPT !.a = position, !.b = p, !.is_team = TRUE], Self)
         \/ \E x \in FillSims :
              \E s \in {add_player(Self, position, FALSE, x)} :
                  Becomes(s, "add_player", [NoArgs EXCEPT !.a = position, !.b = x], Self)
    /\ UNCHANGED status

\* The active players the callers swap: the keeper, the first and the last
\* defender and the first midfielder
ActiveInputs ==
    LET First(l) == IF Len(l) = 0 THEN {} ELSE {l[1]}
        Final(l) == IF Len(l) = 0 THEN {} ELSE {l[Len(l)]}
    IN  ({gk} \cup First(lists[df]) \cup Final(lists[df])
         \cup First(lists[mf])) \ {None}

MoveActive ==
    /\ UNCHANGED cvars
    /\ status = "ok"
    /\ calls < MaxCalls
    /\ calls' = calls + 1
    /\ \E player \in ActiveInputs, player_out \in ActiveInputs :
         \E s \in {move_player(Self, player, player_out)} :
             Becomes(s, "move_player", [NoArgs EXCEPT !.a = player, !.b = player_out], Self)
    /\ UNCHANGED status

\* change_formation to any of the shapes
Reshape ==
    /\ UNCHANGED cvars
    /\ status = "ok"
    /\ calls < MaxCalls
    /\ calls' = calls + 1
    /\ \E i \in 1..Len(FORMATION_STRINGS) :
         \E s \in {change_formation(Self, FORMATION_STRINGS[i])} :
             Becomes(s, "change_formation",
                     [NoArgs EXCEPT !.code = FORMATION_STRINGS[i]], Self)
    /\ UNCHANGED status

FormationFresh ==
    /\ formation_string = <<>>
    /\ gk = None
    /\ df = 0 /\ mf = 0 /\ fw = 0 /\ bench = 0
    /\ history = <<>>
    /\ sims = <<>>
    /\ lists = <<>>
    /\ roster = TeamRoster
    /\ status = "new"
    /\ err = "none"
    /\ last = [name |-> "none"] @@ NoArgs
    /\ pushed = <<>>
    /\ calls = 0

----------------------------------------------------------------------------
(* Specifications *)

ClockInit ==
    /\ ClockFresh
    /\ possible_extra_time \in BOOLEAN
    /\ possible_penalties \in BOOLEAN
    /\ home_score \in 0..MaxScore
    /\ away_score \in 0..MaxScore
    /\ FormationFresh

ClockNext ==
    \/ reset_after_half_time
    \/ RunCall
    \/ RunIter
    \/ RunReturn

ClockSpec == ClockInit /\ [][ClockNext]_vars

\* Once run() has been called its loop keeps executing: the loop is a plain
\* synchronous while loop (no suspension point), so an enabled iteration or
\* return is eventually taken.
FairClockSpec == ClockSpec /\ WF_vars(RunIter) /\ WF_vars(RunReturn)

Init ==
    /\ FormationFresh
    /\ ClockFresh
    /\ possible_extra_time = FALSE
    /\ possible_penalties = FALSE
    /\ home_score = 0
    /\ away_score = 0

Construct == Formation(CodeInputs)

Next ==
    \/ Construct
    \/ AddPlayer
    \/ AssignBestLineup
    \/ ChangeFormation
    \/ SubstitutePlayer
    \/ MovePlayer
    \/ Restore

Spec == Init /\ [][Next]_vars

\* Construction alone, over every code "d-m-f" with digits 2..6 and four
\* strings of another form
AnyCodes ==
    {Str3(d, m, f) : d, m, f \in {"2", "3", "4", "5", "6"}}
    \cup {<<>>, <<"4", "4", "2">>, <<"4", "-", "4">>, Str3("4","4","2") \o <<"-", "0">>}

ConstructAny == Formation(AnyCodes)

CodeNext ==
    \/ ConstructAny

CodeSpec == Init /\ [][CodeNext]_vars

\* A lineup assigned by get_best_players and then changed only by
\* substitute_player, move_player and change_formation
LineupNext ==
    \/ Construct
    \/ AssignBestLineup
    \/ ChangeFormation
    \/ SubstitutePlayer
    \/ MovePlayer

LineupSpec == Init /\ [][LineupNext]_vars

\* A Formation of one of two shapes filled by add_player calls alone
FillNext ==
    \/ ConstructShape
    \/ FillSlot

FillSpec == Init /\ [][FillNext]_vars

\* The rosters get_best_players is called with: the team's players in each
\* rotation of their order, complete or with one player missing
Rotate(seq, k) == [i \in 1..Len(seq) |-> seq[((i + k - 1) % Len(seq)) + 1]]

Without(seq, p) == SelectSeq(seq, LAMBDA x : x # p)

Rosters ==
    {Rotate(TeamRoster, k) : k \in 0..(Len(TeamRoster) - 1)}
    \cup {Without(Rotate(TeamRoster, k), p) :
            k \in 0..(Len(TeamRoster) - 1), p \in 1..Len(TeamRoster)}

AssignInit ==
    /\ formation_string = <<>>
    /\ gk = None
    /\ df = 0 /\ mf = 0 /\ fw = 0 /\ bench = 0
    /\ history = <<>>
    /\ sims = <<>>
    /\ lists = <<>>
    /\ roster \in Rosters
    /\ status = "new"
    /\ err = "none"
    /\ last = [name |-> "none"] @@ NoArgs
    /\ pushed = <<>>
    /\ calls = 0
    /\ ClockFresh
    /\ possible_extra_time = FALSE
    /\ possible_penalties = FALSE
    /\ home_score = 0
    /\ away_score = 0

\* Formation(code) for each of the shapes
ConstructListed ==
    Formation({FORMATION_STRINGS[i] : i \in 1..Len(FORMATION_STRINGS)})

\* A Formation of any shape that is given its lineup from one of the rosters
AssignNext ==
    \/ ConstructListed
    \/ AssignBestLineup

AssignSpec == AssignInit /\ [][AssignNext]_vars

\* A lineup assigned by get_best_players whose active players are swapped and
\* whose shape is changed
TacticNext ==
    \/ Construct
    \/ AssignBestLineup
    \/ MoveActive
    \/ Reshape

TacticSpec == Init /\ [][TacticNext]_vars

\* A Formation built by add_player calls whose shape is changed
BuildNext ==
    \/ Construct
    \/ AddPlayer
    \/ ChangeFormation

BuildSpec == Init /\ [][BuildNext]_vars

----------------------------------------------------------------------------
(* Claims about the Formation *)

\* C1: constructing a Formation from a code succeeds exactly when the code is
\* one of the 8 enumerated shapes; for every other string (for example
\* "4-4-3") construction fails with FormationError.
EnumeratedShapes ==
    {Str3("3","4","3"), Str3("3","5","2"), Str3("3","6","1"), Str3("4","4","2"),
     Str3("4","3","3"), Str3("4","5","1"), Str3("5","4","1"), Str3("5","3","2")}

C1_Construction ==
    (status # "new" /\ last.name = "Formation") =>
        /\ last.code \in EnumeratedShapes => (status = "ok" /\ err = "none")
        /\ last.code \notin EnumeratedShapes
              => (status = "failed" /\ err = "FormationError")

C1_Witness ==
    /\ last.name = "Formation" /\ last.code = Str3("4","4","3")
    /\ status = "failed" /\ err = "FormationError"

\* The players (PlayerTeam identities) a list of PlayerSimulation holds
PlayersOf(l) == [i \in 1..Len(l) |-> sims[l[i]].player]

\* x is in one of gk, df, mf, fw, bench
Member(x) ==
    \/ x = gk
    \/ Contains(lists[df], x) \/ Contains(lists[mf], x)
    \/ Contains(lists[fw], x) \/ Contains(lists[bench], x)

Count(l, x) == Cardinality({i \in 1..Len(l) : l[i] = x})

\* This step is the call `name`
Called(name) == calls' = calls + 1 /\ last'.name = name

\* C2: substitute_player(out, in), for any out and in that are both members of
\* active + bench, completes and afterwards in.current_position is the position
\* out had before, out.subbed is true, in is not on the bench, out is on the
\* bench exactly once, and the history stack holds exactly one more snapshot.
C2_Substitute ==
    [][(Called("substitute_player") /\ Member(last'.a) /\ Member(last'.b)) =>
        /\ err' = "none"
        /\ sims'[last'.b].current_position = sims[last'.a].current_position
        /\ sims'[last'.a].subbed
        /\ ~Contains(lists'[bench'], last'.b)
        /\ Count(lists'[bench'], last'.a) = 1
        /\ Len(history') = Len(history) + 1]_vars

\* The players in the five slots, keeper first
SlottedPlayers ==
    (IF gk = None THEN <<>> ELSE <<sims[gk].player>>)
    \o PlayersOf(lists[df]) \o PlayersOf(lists[mf]) \o PlayersOf(lists[fw])
    \o PlayersOf(lists[bench])

\* get_best_players has placed the eleven
LineupBuilt == Len(roster) + 11 = Len(TeamRoster)

\* C3: in every state reached from a lineup built by assign_best_lineup
\* through substitute_player, move_player and change_formation calls (returning
\* or raising), no player is in more than one of gk, df, mf, fw, bench or twice
\* in one of them.
C3_OneSlotPerPlayer ==
    LineupBuilt =>
        \A i, j \in 1..Len(SlottedPlayers) :
            SlottedPlayers[i] = SlottedPlayers[j] => i = j

\* C4: restore is a round trip: after restore(S) the five slots hold what they
\* held when S was pushed, the same players in the same order with the
\* current position and subbed flag each had then.
C4_RestoreRoundTrip ==
    (last.name = "restore" /\ err = "none") =>
        SlotValues(Self, Live(Self)) = pushed[last.a]

\* The players five slot references m hold
SlotPlayers(v) ==
    [gk |-> [i \in 1..Len(v.gk) |-> v.gk[i].player],
     df |-> [i \in 1..Len(v.df) |-> v.df[i].player],
     mf |-> [i \in 1..Len(v.mf) |-> v.mf[i].player],
     fw |-> [i \in 1..Len(v.fw) |-> v.fw[i].player],
     bench |-> [i \in 1..Len(v.bench) |-> v.bench[i].player]]

\* C5: a snapshot is never mutated after it is pushed: the players in the
\* gk/df/mf/fw/bench of every snapshot on the history stack stay what they
\* were at push time.
C5_SnapshotImmutable ==
    \A i \in 1..Len(history) :
        SlotPlayers(SlotValues(Self, history[i])) = SlotPlayers(pushed[i])

MutatingCalls ==
    {"add_player", "get_best_players", "change_formation", "substitute_player",
     "move_player"}

\* C6: a snapshot of the current slot state is pushed right after construction
\* and before every operation that mutates gk/df/mf/fw/bench, so the top of the
\* stack is the slot state that held just before the most recent mutation.
C6_PushBeforeMutation ==
    /\ [](status = "ok" => Len(history) >= 1)
    /\ [][(\E name \in MutatingCalls : Called(name))
            /\ SlotValues(Self, Live(Self))' # SlotValues(Self, Live(Self))
          => /\ Len(history') = Len(history) + 1
             /\ SlotValues(Self, history[Len(history)])'
                  = SlotValues(Self, Live(Self))]_vars

----------------------------------------------------------------------------
(* Claims about the match clock *)

NoFlag == ~is_half_time /\ ~is_game_over

\* C7: a run() call made with neither flag set terminates, and it returns
\* with is_half_time or is_game_over set.
C7_RunTerminates ==
    (clock_pc = "run" /\ NoFlag) ~> (clock_pc = "idle" /\ ~NoFlag)

\* The loop of run() is about to evaluate the boundary rule at minute m
AtBoundary(m) == clock_pc = "run" /\ NoFlag /\ minutes = m

\* No tick is resolved and the clock does not move in this step
NoTick == minutes' = minutes /\ ticks' = ticks /\ last_tick' = last_tick

\* C8: when the clock reaches 90.0, the game is over (not half-time) if extra
\* time is not possible or the scores differ, and it is half-time (not over) if
\* extra time is possible and the scores are equal; no tick is resolved at
\* 90.0 and minutes stays 90.0.
C8_At90 ==
    [][AtBoundary(900) =>
        /\ NoTick
        /\ (~possible_extra_time \/ home_score # away_score)
              => (is_game_over' /\ ~is_half_time')
        /\ (possible_extra_time /\ home_score = away_score)
              => (is_half_time' /\ ~is_game_over')]_vars

C8_Witness ==
    /\ clock_pc = "idle" /\ minutes = 900 /\ last_tick = 899
    /\ possible_extra_time /\ home_score = away_score
    /\ is_half_time /\ ~is_game_over

\* C9: run() on a fresh clock returns with minutes exactly 45.0, half-time set
\* and game-over clear, after one engine tick for each tenth 0.0 .. 44.9 and
\* none at 45.0; a run() that reaches 105.0 stops there with half-time set; the
\* loop never advances minutes past the boundary in that call.
C9_FirstHalf ==
    /\ [][(clock_pc = "run" /\ clock_pc' = "idle" /\ start = 0) =>
            /\ minutes = 450 /\ is_half_time /\ ~is_game_over
            /\ ticks = 450 /\ last_tick = 449]_vars
    /\ [][(clock_pc = "run" /\ NoFlag /\ start = 0 /\ minutes < 450) =>
            /\ last_tick' = minutes /\ ticks' = ticks + 1
            /\ minutes' = minutes + 1 /\ ticks' = minutes']_vars
    /\ [][(AtBoundary(450) \/ AtBoundary(1050)) =>
            (NoTick /\ is_half_time' /\ ~is_game_over')]_vars
    /\ [](clock_pc = "run" =>
            /\ start <= 450 => minutes <= 450
            /\ (900 < start /\ start <= 1050) => minutes <= 1050)

C9_Witness ==
    /\ clock_pc = "idle" /\ start = 0 /\ resets = 0
    /\ minutes = 450 /\ ticks = 450 /\ is_half_time

\* C10: when the clock reaches 120.0, it enters Break (half-time set, game-over
\* clear) if penalties are possible and the scores are equal, and Over
\* (game-over set, half-time clear) otherwise; no tick is resolved at 120.0.
C10_At120 ==
    [][AtBoundary(1200) =>
        /\ NoTick
        /\ (possible_penalties /\ home_score = away_score)
              => (is_half_time' /\ ~is_game_over')
        /\ ~(possible_penalties /\ home_score = away_score)
              => (is_game_over' /\ ~is_half_time')]_vars

C10_Witness ==
    /\ clock_pc = "idle" /\ minutes = 1200 /\ last_tick = 1199
    /\ possible_penalties /\ home_score = away_score
    /\ is_half_time /\ ~is_game_over

\* The minutes at which game_is_not_in_break stops the clock
Boundaries == {450, 900, 1050, 1200}

\* The first boundary after b, -1 where there is none
NextBoundary(b) ==
    IF \E c \in Boundaries : c > b
    THEN CHOOSE c \in Boundaries : c > b /\ \A d \in Boundaries : d > b => c <= d
    ELSE -1

\* C11: reset_after_half_time() called in Break at a boundary b clears
\* is_half_time and advances minutes by exactly 0.1 to b+0.1, leaving
\* is_game_over and the permission flags unchanged; the next run() does not
\* stop again at b: it resolves ticks from b+0.1 and stops at the next
\* boundary after b.
C11_ResetResumes ==
    /\ [][(resets' = resets + 1 /\ is_half_time /\ minutes \in Boundaries) =>
            /\ ~is_half_time'
            /\ minutes' = minutes + 1
            /\ UNCHANGED <<is_game_over, possible_extra_time,
                           possible_penalties>>]_vars
    /\ [][(clock_pc = "run" /\ NoFlag /\ minutes = start
             /\ (start - 1) \in Boundaries) =>
            (last_tick' = start /\ minutes' = start + 1 /\ NoFlag')]_vars
    /\ (clock_pc = "run" /\ NoFlag /\ minutes = start
          /\ (start - 1) \in Boundaries)
         ~> (clock_pc = "idle" /\ ~NoFlag /\ minutes = NextBoundary(start - 1))

\* C12: in every reachable clock state is_half_time and is_game_over are never
\* both true, and no step of run() or reset_after_half_time() decreases the
\* elapsed minutes.
C12_FlagsAndMinutes ==
    /\ [](~(is_half_time /\ is_game_over))
    /\ [][minutes' >= minutes]_vars

C12_Witness ==
    /\ clock_pc = "idle" /\ minutes = 1200 /\ resets = 3
    /\ is_game_over /\ ~is_half_time

\* C13: Over is terminal: once is_game_over is true no step of run() or
\* reset_after_half_time() clears it, and a run() in Over returns at once
\* without a tick and without advancing minutes.
C13_OverTerminal ==
    /\ [][is_game_over => is_game_over']_vars
    /\ [][(is_game_over /\ clock_pc = "run") =>
            (clock_pc' = "idle" /\ NoTick)]_vars

\* run() was called in Over, after a reset_after_half_time() in Over, and
\* has returned
C13_Witness ==
    /\ clock_pc = "idle" /\ is_game_over
    /\ start = 901 /\ minutes = 901 /\ ticks = 0 /\ last_tick = 899

----------------------------------------------------------------------------
(* Claims about the Formation: errors and add_player *)

\* The slots, every player's labels and the history stack are as before
SameFormation ==
    UNCHANGED <<gk, df, mf, fw, bench, lists, sims, history>>

\* C14: if out or in is not a member of active + bench, substitute_player
\* raises FormationError and changes nothing: the slots, every player's
\* current position and subbed flag and the history stack are as before.
C14_SubstituteOutsider ==
    [][(Called("substitute_player") /\ (~Member(last'.a) \/ ~Member(last'.b)))
          => (err' = "FormationError" /\ SameFormation)]_vars

\* substitute_player was refused for a keeper object that is in no slot of
\* a formation that has a keeper
C14_Witness ==
    /\ last.name = "substitute_player" /\ err = "FormationError"
    /\ gk # None /\ Member(last.b) /\ ~Member(last.a)
    /\ sims[last.a].current_position = "GK"

\* C15: move_player(a, b) raises FormationError if a or b is not a member of
\* active + bench, and then the slots, the players' labels and the history
\* stack are unchanged.
C15_MoveOutsider ==
    [][(Called("move_player") /\ (~Member(last'.a) \/ ~Member(last'.b)))
          => (err' = "FormationError" /\ SameFormation)]_vars

\* C16: FormationError is the only error a Formation operation fails with.
C16_OnlyFormationError == err \in {"none", "FormationError"}

\* C17: after add_player(0, P) the keeper slot holds P and P's current
\* position is GK, for P a PlayerTeam and for P a PlayerSimulation.
C17_AddKeeper ==
    (last.name = "add_player" /\ last.a = 0) =>
        /\ err = "none"
        /\ gk # None
        /\ sims[gk].current_position = "GK"
        /\ IF last.is_team THEN sims[gk].player = last.b ELSE gk = last.b

\* C19: len(df), len(mf) and len(fw) do not exceed the counts of the current
\* formation code and at most 11 players are active.
C19_SlotCounts ==
    status = "ok" =>
        LET n == get_num_players(formation_string)
        IN  /\ n.ok
            /\ Len(lists[df]) <= n.df
            /\ Len(lists[mf]) <= n.mf
            /\ Len(lists[fw]) <= n.fw
            /\ (IF gk = None THEN 0 ELSE 1) + Len(lists[df]) + Len(lists[mf])
                 + Len(lists[fw]) <= 11

\* C18: add_player(i, P), i # 0, on a formation with code counts (df, mf, fw)
\* appends P to the bucket whose index range holds i, with that bucket's
\* position, if the bucket is not full; in every other case it appends P to
\* the bench with P's intrinsic best position.  No sequence of add_player
\* calls makes a bucket exceed its capacity.
C18_AddByRange ==
    /\ [][(Called("add_player") /\ last'.a # 0) =>
            LET i == last'.a
                n == get_num_players(formation_string)
                P == IF last'.is_team THEN Len(sims') ELSE last'.b
                to_df == 1 <= i /\ i <= n.df /\ Len(lists[df]) < n.df
                to_mf == n.df < i /\ i <= n.df + n.mf /\ Len(lists[mf]) < n.mf
                to_fw == n.df + n.mf < i /\ i <= n.df + n.mf + n.fw
                           /\ Len(lists[fw]) < n.fw
                to_bench == ~to_df /\ ~to_mf /\ ~to_fw
                Grows(l, m, yes) == m = IF yes THEN Append(l, P) ELSE l
            IN  /\ err' = "none"
                /\ last'.is_team => sims'[P].player = last'.b
                /\ Grows(lists[df], lists'[df'], to_df)
                /\ Grows(lists[mf], lists'[mf'], to_mf)
                /\ Grows(lists[fw], lists'[fw'], to_fw)
                /\ Grows(lists[bench], lists'[bench'], to_bench)
                /\ gk' = gk
                /\ sims'[P].current_position =
                     IF to_df THEN "DF" ELSE IF to_mf THEN "MF"
                     ELSE IF to_fw THEN "FW"
                     ELSE get_best_position(sims'[P].player)]_vars
    /\ [](status = "ok" =>
            LET n == get_num_players(formation_string)
            IN  /\ Len(lists[df]) <= n.df
                /\ Len(lists[mf]) <= n.mf
                /\ Len(lists[fw]) <= n.fw)

\* A fourth forward of the roster added at a defender index of a full 3-5-2
\* defence went to the bench, as a forward
C18_Witness ==
    /\ last.name = "add_player" /\ last.a = 1 /\ last.is_team
    /\ formation_string = Str3("3","5","2")
    /\ Len(lists[df]) = 3 /\ Len(lists[bench]) = 1
    /\ sims[lists[bench][1]].current_position = "FW"

\* The number of players of list l whose intrinsic best position is pos
Eligible(l, pos) ==
    Cardinality({i \in 1..Len(l) : get_best_position(l[i]) = pos})

\* The roster has a keeper and enough defenders, midfielders and forwards for
\* the formation code
EnoughPlayers ==
    LET n == get_num_players(formation_string)
    IN  /\ Eligible(roster, "GK") >= 1
        /\ Eligible(roster, "DF") >= n.df
        /\ Eligible(roster, "MF") >= n.mf
        /\ Eligible(roster, "FW") >= n.fw

\* C20: assign_best_lineup on an empty formation with a roster that has enough
\* players per position assigns no player to two slots; afterwards the bench
\* is the roster minus the starting eleven (each roster player is in exactly
\* one of starting XI or bench), each bench player carries its intrinsic best
\* position, and the bench is ordered ascending by position rank.
C20_AssignBestLineup ==
    [][(Called("get_best_players") /\ sims = <<>> /\ EnoughPlayers) =>
         LET all == SlottedPlayers'
             b == lists'[bench']
             XI == {all[i] : i \in 1..11}
         IN  /\ err' = "none"
             /\ gk' # None
             /\ Len(all) = Len(roster)
             /\ Len(all) - Len(b) = 11
             /\ \A i, j \in 1..Len(all) : all[i] = all[j] => i = j
             /\ {all[i] : i \in 1..Len(all)} = {roster[i] : i \in 1..Len(roster)}
             /\ {sims'[b[i]].player : i \in 1..Len(b)}
                  = {roster[i] : i \in 1..Len(roster)} \ XI
             /\ \A i \in 1..Len(b) :
                  sims'[b[i]].current_position
                    = get_best_position(sims'[b[i]].player)
             /\ \A i, j \in 1..Len(b) :
                  i < j => PosValue(sims'[b[i]].current_position)
                             <= PosValue(sims'[b[j]].current_position)]_vars

\* A 4-4-2 lineup whose two spare players, a forward listed before a
\* goalkeeper, are on the bench with the goalkeeper first
C20_Witness ==
    /\ last.name = "get_best_players" /\ err = "none"
    /\ formation_string = Str3("4","4","2")
    /\ roster = <<1, 2>>
    /\ PlayersOf(lists[bench]) = <<2, 1>>
    /\ sims[lists[bench][1]].current_position = "GK"
    /\ sims[lists[bench][2]].current_position = "FW"

----------------------------------------------------------------------------
(* Claims about the lineup, swaps and changes of shape *)

\* The position each of the 11 slot indices 0..10 requires under counts n
SlotPosition(n, k) ==
    IF k = 0 THEN "GK"
    ELSE IF k <= n.df THEN "DF"
    ELSE IF k <= n.df + n.mf THEN "MF"
    ELSE "FW"

\* Among the players of l whose intrinsic best position is pos, the one with
\* the highest rating for pos, the earliest in l among equals
BestOf(l, pos) ==
    LET ok(i) == get_best_position(l[i]) = pos
        i == CHOOSE i \in 1..Len(l) :
                 /\ ok(i)
                 /\ \A j \in 1..Len(l) : ok(j) =>
                      \/ get_overall(l[j], pos) < get_overall(l[i], pos)
                      \/ get_overall(l[j], pos) = get_overall(l[i], pos) /\ i <= j
    IN  l[i]

\* The players slot indices k..10 receive from the players l not yet assigned
RECURSIVE BestEleven(_, _, _)
BestEleven(l, n, k) ==
    IF k = 11 THEN <<>>
    ELSE LET p == BestOf(l, SlotPosition(n, k))
         IN  <<p>> \o BestEleven(Without(l, p), n, k + 1)

Active(x) ==
    \/ x = gk
    \/ Contains(lists[df], x) \/ Contains(lists[mf], x) \/ Contains(lists[fw], x)

\* List l with a and b exchanged
Exchanged(l, a, b) ==
    [i \in 1..Len(l) |-> IF l[i] = a THEN b ELSE IF l[i] = b THEN a ELSE l[i]]

\* C22: after a successful move_player(a, b) between two distinct active
\* players, a is in the bucket and at the index b had and b where a was,
\* their current-position labels are exchanged, and every other slot and the
\* bench are unchanged, in either argument order and within one bucket.
C22_MoveSwaps ==
    [][(Called("move_player") /\ last'.a # last'.b /\ Active(last'.a)
          /\ Active(last'.b) /\ err' = "none") =>
         LET a == last'.a
             b == last'.b
         IN  /\ gk' = IF gk = a THEN b ELSE IF gk = b THEN a ELSE gk
             /\ lists'[df'] = Exchanged(lists[df], a, b)
             /\ lists'[mf'] = Exchanged(lists[mf], a, b)
             /\ lists'[fw'] = Exchanged(lists[fw], a, b)
             /\ lists'[bench'] = lists[bench]
             /\ sims'[a].current_position = sims[b].current_position
             /\ sims'[b].current_position = sims[a].current_position
             /\ \A x \in 1..Len(sims) : x \notin {a, b} => sims'[x] = sims[x]]_vars

\* The ordered active-player list: keeper, defenders, midfielders, forwards
ActivePlayers == <<gk>> \o lists[df] \o lists[mf] \o lists[fw]

\* A keeper and ten outfield players are in the slots
CompleteEleven ==
    gk # None /\ Len(lists[df]) + Len(lists[mf]) + Len(lists[fw]) = 10

\* C23: change_formation(newCode) with a valid newCode on a complete starting
\* eleven leaves the ordered active-player list and the bench as they were,
\* gives the three buckets the sizes of the new code, and labels each
\* outfield player with the bucket it landed in.
C23_ReshapeKeepsOrder ==
    [][(Called("change_formation") /\ CompleteEleven
          /\ last'.code \in EnumeratedShapes) =>
         LET n == get_num_players(last'.code)
         IN  /\ err' = "none"
             /\ formation_string' = last'.code
             /\ ActivePlayers' = ActivePlayers
             /\ lists'[bench'] = lists[bench]
             /\ Len(lists'[df']) = n.df
             /\ Len(lists'[mf']) = n.mf
             /\ Len(lists'[fw']) = n.fw
             /\ \A i \in 1..n.df : sims'[lists'[df'][i]].current_position = "DF"
             /\ \A i \in 1..n.mf : sims'[lists'[mf'][i]].current_position = "MF"
             /\ \A i \in 1..n.fw : sims'[lists'[fw'][i]].current_position = "FW"]_vars

\* A 4-4-2 lineup changed to 3-5-2: the fourth defender is the first
\* midfielder, labelled MF
C23_Witness ==
    /\ last.name = "change_formation" /\ err = "none"
    /\ formation_string = Str3("3","5","2")
    /\ PlayersOf(lists[df]) = <<3, 5, 11>>
    /\ PlayersOf(lists[mf]) = <<8, 4, 12, 10, 7>>
    /\ sims[lists[mf][1]].current_position = "MF"
    /\ Len(lists[bench]) = 2

\* C24: the formation code held by a Formation is one of the 8 enumerated
\* shapes in every reachable state: change_formation with a code outside the
\* set raises FormationError and leaves the stored code and the
\* gk/df/mf/fw/bench slots as they were.
C24_CodeStaysValid ==
    /\ [](status = "ok" => formation_string \in EnumeratedShapes)
    /\ [][(Called("change_formation") /\ last'.code \notin EnumeratedShapes) =>
            /\ err' = "FormationError"
            /\ formation_string' = formation_string
            /\ UNCHANGED <<gk, df, mf, fw, bench, lists>>]_vars

\* The players in gk, df, mf, fw and bench
PlayerSet == {SlottedPlayers[i] : i \in 1..Len(SlottedPlayers)}

\* C25: change_formation never loses a player: from every state reached
\* through add_player calls (also with no keeper yet or fewer than 11 active
\* players), after a successful change_formation the set of players in gk,
\* df, mf, fw and bench is the set before the call.
C25_ReshapeKeepsPlayers ==
    [][(Called("change_formation") /\ err' = "none") => PlayerSet' = PlayerSet]_vars

====
